---- MODULE Spec2Model ----
(***************************************************************************)
(* Converto popup: the unit-conversion engine (px, rem, em, %, base unit)  *)
(* and the App component that owns the mode, the two value fields, the     *)
(* four base ratios and the "copied" indicator.                            *)
(*                                                                         *)
(* JavaScript numbers are modelled as exact signed rationals extended with *)
(* -0, +Infinity, -Infinity and NaN, with the IEEE-754 rules of * and /    *)
(* for zeros, infinities and NaN.  Rounding, overflow and underflow of the *)
(* 64-bit format are not modelled: arithmetic on finite values is exact.   *)
(* Texts are sequences of one-character strings.                           *)
(***************************************************************************)
EXTENDS Integers, Sequences, FiniteSets, TLC

VARIABLES
    selectedConversion,  \* App state: conversion mode
    value1,              \* App state: text of the first field
    value2,              \* App state: text of the second field
    baseRem,             \* App state: px per rem
    baseEm,              \* App state: px per em
    containerWidth,      \* App state: reference width for %
    baseUnit,            \* App state: px per base unit
    copied,              \* App state: the "copied" toast is shown
    timers,              \* number of pending setTimeout callbacks
    thrown,              \* an event handler ended in an uncaught exception
    lastHandler,         \* the handler that last wrote the mode or a value field
    pMode,               \* engine call: mode tag argument
    pValue,              \* engine call: value argument
    pRatios,             \* engine call: bases argument
    pCalls,              \* engine call: functions applied so far
    pNum,                \* engine call: number returned by the last conversion
    pTag,                \* engine call: tag returned by the last inversion
    pLabels              \* engine call: record returned by the label lookup

uiVars == <<selectedConversion, value1, value2, baseRem, baseEm,
            containerWidth, baseUnit, copied, timers, thrown, lastHandler>>
probeVars == <<pMode, pValue, pRatios, pCalls, pNum, pTag, pLabels>>
vars == <<selectedConversion, value1, value2, baseRem, baseEm,
          containerWidth, baseUnit, copied, timers, thrown, lastHandler,
          pMode, pValue, pRatios, pCalls, pNum, pTag, pLabels>>

----------------------------------------------------------------------------
(* Bounds of the checked instance *)

\* engine values range over the integers -MaxValue .. MaxValue (and specials)
MaxValue == 3
\* engine ratios range over 1 .. MaxRatio (and the defaults, 0 and a negative)
MaxRatio == 2
\* at most MaxTimers copy timeouts are pending at once
MaxTimers == 2

----------------------------------------------------------------------------
(* JavaScript numbers *)

RECURSIVE GCD(_, _)
GCD(a, b) == IF b = 0 THEN a ELSE GCD(b, a % b)

\* the finite number s * n / d  (s in {1,-1}, n >= 0, d > 0), in lowest terms
Fin(s, n, d) ==
    LET g == GCD(n, d)
    IN  [k |-> "fin", s |-> s, n |-> n \div g, d |-> d \div g]

Num(i) == IF i < 0 THEN Fin(-1, -i, 1) ELSE Fin(1, i, 1)
NegZero == Fin(-1, 0, 1)
Inf(s) == [k |-> "inf", s |-> s, n |-> 1, d |-> 0]
NaN == [k |-> "nan", s |-> 1, n |-> 0, d |-> 0]
Undefined == [k |-> "undefined", s |-> 1, n |-> 0, d |-> 0]

IsNaN(x) == x.k = "nan"
IsInfinite(x) == x.k = "inf"
IsFinite(x) == x.k = "fin"
IsZero(x) == x.k = "fin" /\ x.n = 0
IsNumber(x) == x.k \in {"fin", "inf", "nan"}

\* JavaScript x * y
NumMul(x, y) ==
    IF IsNaN(x) \/ IsNaN(y) THEN NaN
    ELSE IF IsInfinite(x) \/ IsInfinite(y)
         THEN IF IsZero(x) \/ IsZero(y) THEN NaN ELSE Inf(x.s * y.s)
    ELSE Fin(x.s * y.s, x.n * y.n, x.d * y.d)

\* JavaScript x / y
NumDiv(x, y) ==
    IF IsNaN(x) \/ IsNaN(y) THEN NaN
    ELSE IF IsInfinite(x)
         THEN IF IsInfinite(y) THEN NaN ELSE Inf(x.s * y.s)
    ELSE IF IsInfinite(y) THEN Fin(x.s * y.s, 0, 1)
    ELSE IF IsZero(y)
         THEN IF IsZero(x) THEN NaN ELSE Inf(x.s * y.s)
    ELSE Fin(x.s * y.s, x.n * y.d, x.d * y.n)

\* JavaScript x === y on numbers
StrictEq(x, y) ==
    IF IsNaN(x) \/ IsNaN(y) THEN FALSE
    ELSE IF IsZero(x) /\ IsZero(y) THEN TRUE
    ELSE x = y

----------------------------------------------------------------------------
(* utils/units.js *)

selectOptions_duplicate ==
    << [value |-> "PX_REM",  label |-> "PX to REM"],
       [value |-> "REM_PX",  label |-> "REM to PX"],
       [value |-> "PX_EM",   label |-> "PX to EM"],
       [value |-> "PX_EM",   label |-> "PX to EM"],
       [value |-> "PX_PCT",  label |-> "PX to %"],
       [value |-> "PCT_PX",  label |-> "% to PX"],
       [value |-> "BASE_PX", label |-> "Base unit to PX"],
       [value |-> "PX_BASE", label |-> "PX to Base unit"] >>

selectOptions_extra ==
    << [value |-> "PX_REM",  label |-> "PX to REM"],
       [value |-> "REM_PX",  label |-> "REM to PX"],
       [value |-> "PX_EM",   label |-> "PX to EM"],
       [value |-> "EM_PX",   label |-> "EM to PX"],
       [value |-> "PX_PCT",  label |-> "PX to %"],
       [value |-> "PCT_PX",  label |-> "% to PX"],
       [value |-> "BASE_PX", label |-> "Base unit to PX"],
       [value |-> "PX_BASE", label |-> "PX to Base unit"],
       [value |-> "PT_PX",   label |-> "PT to PX"] >>

selectOptions ==
    << [value |-> "PX_REM",  label |-> "PX to REM"],
       [value |-> "REM_PX",  label |-> "REM to PX"],
       [value |-> "PX_EM",   label |-> "PX to EM"],
       [value |-> "EM_PX",   label |-> "EM to PX"],
       [value |-> "PX_PCT",  label |-> "PX to %"],
       [value |-> "PCT_PX",  label |-> "% to PX"],
       [value |-> "BASE_PX", label |-> "Base unit to PX"],
       [value |-> "PX_BASE", label |-> "PX to Base unit"] >>

invertedMap_oneWay ==
    [ PX_REM  |-> "REM_PX",
      REM_PX  |-> "PX_REM",
      PX_EM   |-> "EM_PX",
      EM_PX   |-> "PX_EM",
      PX_PCT  |-> "PCT_PX",
      PCT_PX  |-> "PX_PCT",
      BASE_PX |-> "PX_BASE",
      PX_BASE |-> "PX_BASE" ]

invertedMap_crossed ==
    [ PX_REM  |-> "REM_PX",
      REM_PX  |-> "PX_REM",
      PX_EM   |-> "REM_PX",
      EM_PX   |-> "PX_EM",
      PX_PCT  |-> "PCT_PX",
      PCT_PX  |-> "PX_PCT",
      BASE_PX |-> "PX_BASE",
      PX_BASE |-> "BASE_PX" ]

invertedMap_typo ==
    [ PX_REM  |-> "REM_PX",
      REM_PX  |-> "PX_REM",
      PX_EM   |-> "EM_PX",
      EM_PX   |-> "PX_EM",
      PX_PCT  |-> "PCT_PX",
      PCT_PX  |-> "PX_PCT",
      BASE_PX |-> "PX_BASE",
      PX_BASE |-> "BASE_PXX" ]

invertedMap ==
    [ PX_REM  |-> "REM_PX",
      REM_PX  |-> "PX_REM",
      PX_EM   |-> "EM_PX",
      EM_PX   |-> "PX_EM",
      PX_PCT  |-> "PCT_PX",
      PCT_PX  |-> "PX_PCT",
      BASE_PX |-> "PX_BASE",
      PX_BASE |-> "BASE_PX" ]

\* property names every object literal inherits from Object.prototype
ObjectPrototypeKeys ==
    {"constructor", "toString", "valueOf", "hasOwnProperty", "__proto__"}

\* invertedMap[key]: an own entry, else a member inherited from
\* Object.prototype, else undefined.  Values that are not strings are
\* written "<...>"; no mode tag starts with "<".
invertedMapGet(key) ==
    IF key \in DOMAIN invertedMap THEN invertedMap[key]
    ELSE IF key \in ObjectPrototypeKeys THEN "<Object.prototype." \o key \o ">"
    ELSE "<undefined>"

\* JavaScript truthiness of a looked-up value
Truthy(v) == v \notin {"<undefined>", ""}

----------------------------------------------------------------------------
(* the conversion engine *)

pxToRem(px, rem) == NumDiv(px, rem)

remToPx(rem, remBase) == NumMul(rem, remBase)

pxToEm(px, em) == NumDiv(px, em)

emToPx(em, emBase) == NumMul(em, emBase)

pxToPct_noScale(px, width) == NumDiv(px, width)

pxToPct_guarded(px, width) ==
    IF IsZero(width) THEN Num(0) ELSE NumMul(NumDiv(px, width), Num(100))

pxToPct(px, width) == NumMul(NumDiv(px, width), Num(100))

pctToPx(pct, width) == NumMul(NumDiv(pct, Num(100)), width)

baseUnitToPx(base, unit) == NumMul(base, unit)

pxToBaseUnit(px, unit) == NumDiv(px, unit)

directConversion_emReadsRem(mode, value, bases) ==
    CASE mode = "PX_REM"  -> pxToRem(value, bases.baseRem)
      [] mode = "REM_PX"  -> remToPx(value, bases.baseRem)
      [] mode = "PX_EM"   -> pxToEm(value, bases.baseRem)
      [] mode = "EM_PX"   -> emToPx(value, bases.baseRem)
      [] mode = "PX_PCT"  -> pxToPct(value, bases.containerWidth)
      [] mode = "PCT_PX"  -> pctToPx(value, bases.containerWidth)
      [] mode = "BASE_PX" -> baseUnitToPx(value, bases.baseUnit)
      [] mode = "PX_BASE" -> pxToBaseUnit(value, bases.baseUnit)
      [] OTHER            -> Num(0)

directConversion_identityDefault(mode, value, bases) ==
    CASE mode = "PX_REM"  -> pxToRem(value, bases.baseRem)
      [] mode = "REM_PX"  -> remToPx(value, bases.baseRem)
      [] mode = "PX_EM"   -> pxToEm(value, bases.baseEm)
      [] mode = "EM_PX"   -> emToPx(value, bases.baseEm)
      [] mode = "PX_PCT"  -> pxToPct(value, bases.containerWidth)
      [] mode = "PCT_PX"  -> pctToPx(value, bases.containerWidth)
      [] mode = "BASE_PX" -> baseUnitToPx(value, bases.baseUnit)
      [] mode = "PX_BASE" -> pxToBaseUnit(value, bases.baseUnit)
      [] OTHER            -> value

directConversion(mode, value, bases) ==
    CASE mode = "PX_REM"  -> pxToRem(value, bases.baseRem)
      [] mode = "REM_PX"  -> remToPx(value, bases.baseRem)
      [] mode = "PX_EM"   -> pxToEm(value, bases.baseEm)
      [] mode = "EM_PX"   -> emToPx(value, bases.baseEm)
      [] mode = "PX_PCT"  -> pxToPct(value, bases.containerWidth)
      [] mode = "PCT_PX"  -> pctToPx(value, bases.containerWidth)
      [] mode = "BASE_PX" -> baseUnitToPx(value, bases.baseUnit)
      [] mode = "PX_BASE" -> pxToBaseUnit(value, bases.baseUnit)
      [] OTHER            -> Num(0)

reverseConversion_copyPaste(mode, value, bases) ==
    CASE mode = "PX_REM"  -> remToPx(value, bases.baseRem)
      [] mode = "REM_PX"  -> pxToRem(value, bases.baseRem)
      [] mode = "PX_EM"   -> emToPx(value, bases.baseEm)
      [] mode = "EM_PX"   -> pxToEm(value, bases.baseEm)
      [] mode = "PX_PCT"  -> pctToPx(value, bases.containerWidth)
      [] mode = "PCT_PX"  -> pxToPct(value, bases.containerWidth)
      [] mode = "BASE_PX" -> baseUnitToPx(value, bases.baseUnit)
      [] mode = "PX_BASE" -> pxToBaseUnit(value, bases.baseUnit)
      [] OTHER            -> Num(0)

reverseConversion_noDefault(mode, value, bases) ==
    CASE mode = "PX_REM"  -> remToPx(value, bases.baseRem)
      [] mode = "REM_PX"  -> pxToRem(value, bases.baseRem)
      [] mode = "PX_EM"   -> emToPx(value, bases.baseEm)
      [] mode = "EM_PX"   -> pxToEm(value, bases.baseEm)
      [] mode = "PX_PCT"  -> pctToPx(value, bases.containerWidth)
      [] mode = "PCT_PX"  -> pxToPct(value, bases.containerWidth)
      [] mode = "BASE_PX" -> pxToBaseUnit(value, bases.baseUnit)
      [] mode = "PX_BASE" -> baseUnitToPx(value, bases.baseUnit)
      [] OTHER            -> Undefined

reverseConversion(mode, value, bases) ==
    CASE mode = "PX_REM"  -> remToPx(value, bases.baseRem)
      [] mode = "REM_PX"  -> pxToRem(value, bases.baseRem)
      [] mode = "PX_EM"   -> emToPx(value, bases.baseEm)
      [] mode = "EM_PX"   -> pxToEm(value, bases.baseEm)
      [] mode = "PX_PCT"  -> pctToPx(value, bases.containerWidth)
      [] mode = "PCT_PX"  -> pxToPct(value, bases.containerWidth)
      [] mode = "BASE_PX" -> pxToBaseUnit(value, bases.baseUnit)
      [] mode = "PX_BASE" -> baseUnitToPx(value, bases.baseUnit)
      [] OTHER            -> Num(0)

Labels(l1, l2, p1, p2) ==
    [label1 |-> l1, label2 |-> l2, placeholder1 |-> p1, placeholder2 |-> p2]

getLabelsAndPlaceholders_swappedEm(mode) ==
    CASE mode = "PX_REM"  -> Labels("PX", "REM", "Enter PX value", "Converted to REM")
      [] mode = "REM_PX"  -> Labels("REM", "PX", "Enter REM value", "Converted to PX")
      [] mode = "PX_EM"   -> Labels("PX", "EM", "Enter PX value", "Converted to EM")
      [] mode = "EM_PX"   -> Labels("PX", "EM", "Enter EM value", "Converted to PX")
      [] mode = "PX_PCT"  -> Labels("PX", "%", "Enter PX value", "Converted to %")
      [] mode = "PCT_PX"  -> Labels("%", "PX", "Enter % value", "Converted to PX")
      [] mode = "BASE_PX" -> Labels("Base Unit", "PX", "Enter base unit value", "Converted to PX")
      [] mode = "PX_BASE" -> Labels("PX", "Base Unit", "Enter PX value", "Converted to base unit")
      [] OTHER            -> Labels("Value 1", "Value 2", "Enter value", "Converted value")

getLabelsAndPlaceholders(mode) ==
    CASE mode = "PX_REM"  -> Labels("PX", "REM", "Enter PX value", "Converted to REM")
      [] mode = "REM_PX"  -> Labels("REM", "PX", "Enter REM value", "Converted to PX")
      [] mode = "PX_EM"   -> Labels("PX", "EM", "Enter PX value", "Converted to EM")
      [] mode = "EM_PX"   -> Labels("EM", "PX", "Enter EM value", "Converted to PX")
      [] mode = "PX_PCT"  -> Labels("PX", "%", "Enter PX value", "Converted to %")
      [] mode = "PCT_PX"  -> Labels("%", "PX", "Enter % value", "Converted to PX")
      [] mode = "BASE_PX" -> Labels("Base Unit", "PX", "Enter base unit value", "Converted to PX")
      [] mode = "PX_BASE" -> Labels("PX", "Base Unit", "Enter PX value", "Converted to base unit")
      [] OTHER            -> Labels("Value 1", "Value 2", "Enter value", "Converted value")

\* handleSwitch: invertedMap[selectedConversion] || selectedConversion
invert(mode) ==
    LET found == invertedMapGet(mode)
    IN  IF Truthy(found) THEN found ELSE mode

----------------------------------------------------------------------------
(* texts: String.prototype.replace, parseFloat, Number.prototype.toFixed *)

Digits == <<"0", "1", "2", "3", "4", "5", "6", "7", "8", "9">>

IsDigit(c) == \E i \in DOMAIN Digits : Digits[i] = c

DigitValue(c) == (CHOOSE i \in DOMAIN Digits : Digits[i] = c) - 1

RECURSIVE Pow10(_)
Pow10(e) == IF e = 0 THEN 1 ELSE 10 * Pow10(e - 1)

\* text.replace(from, to): the first occurrence of the character only
RECURSIVE ReplaceFirst(_, _, _)
ReplaceFirst(text, from, to) ==
    IF text = <<>> THEN <<>>
    ELSE IF Head(text) = from THEN <<to>> \o Tail(text)
    ELSE <<Head(text)>> \o ReplaceFirst(Tail(text), from, to)

RECURSIVE TrimStart(_)
TrimStart(text) ==
    IF text # <<>> /\ Head(text) = " " THEN TrimStart(Tail(text)) ELSE text

\* length of the longest prefix of text made of decimal digits
RECURSIVE CountDigits(_)
CountDigits(text) ==
    IF text # <<>> /\ IsDigit(Head(text)) THEN 1 + CountDigits(Tail(text)) ELSE 0

\* value of a sequence of decimal digits (0 for the empty sequence)
RECURSIVE DigitsValue(_)
DigitsValue(ds) ==
    IF ds = <<>> THEN 0
    ELSE 10 * DigitsValue(SubSeq(ds, 1, Len(ds) - 1)) + DigitValue(ds[Len(ds)])

\* parseFloat(text): leading blanks skipped, then the longest prefix
\* [+-] digits [. digits]; NaN when that prefix holds no digit.  The texts
\* of the model hold no exponent part and no "Infinity" literal.
parseFloat(text) ==
    LET t      == TrimStart(text)
        signed == t # <<>> /\ Head(t) \in {"+", "-"}
        sign   == IF t # <<>> /\ Head(t) = "-" THEN -1 ELSE 1
        body   == IF signed THEN Tail(t) ELSE t
        ni     == CountDigits(body)
        rest   == SubSeq(body, ni + 1, Len(body))
        dotted == rest # <<>> /\ Head(rest) = "."
        nf     == IF dotted THEN CountDigits(Tail(rest)) ELSE 0
        ipart  == DigitsValue(SubSeq(body, 1, ni))
        fpart  == IF dotted THEN DigitsValue(SubSeq(Tail(rest), 1, nf)) ELSE 0
    IN  IF ni = 0 /\ nf = 0 THEN NaN
        ELSE Fin(sign, ipart * Pow10(nf) + fpart, Pow10(nf))

\* decimal digits of a natural number
RECURSIVE NatToText(_)
NatToText(i) ==
    IF i < 10 THEN <<Digits[i + 1]>>
    ELSE NatToText(i \div 10) \o <<Digits[(i % 10) + 1]>>

\* a sequence of digits left-padded with "0" to the given width
RECURSIVE PadStart(_, _)
PadStart(text, width) ==
    IF Len(text) >= width THEN text ELSE PadStart(<<"0">> \o text, width)

\* x.toFixed(f): the integer m nearest to |x| * 10^f (the larger on a tie),
\* written with f decimals, "-" in front when x < 0; NaN and the infinities
\* are written as Number.prototype.toString writes them
toFixed(x, f) ==
    IF IsNaN(x) THEN <<"N", "a", "N">>
    ELSE IF IsInfinite(x)
         THEN (IF x.s < 0 THEN <<"-">> ELSE <<>>)
              \o <<"I", "n", "f", "i", "n", "i", "t", "y">>
    ELSE LET m == (2 * x.n * Pow10(f) + x.d) \div (2 * x.d)
             minus == IF x.s < 0 /\ x.n > 0 THEN <<"-">> ELSE <<>>
         IN  minus \o NatToText(m \div Pow10(f)) \o <<".">>
                   \o PadStart(NatToText(m % Pow10(f)), f)

----------------------------------------------------------------------------
(* the App component *)

\* Input renders <input type='number'>: the value the element holds, and
\* hands to onChange as event.target.value, is the text when that is a valid
\* floating-point number, [-] digits [. digits] or [-] . digits, and the
\* empty string otherwise (the texts of the model hold no exponent part)
IsValidFloat(text) ==
    LET body   == IF text # <<>> /\ Head(text) = "-" THEN Tail(text) ELSE text
        ni     == CountDigits(body)
        rest   == SubSeq(body, ni + 1, Len(body))
        dotted == rest # <<>> /\ Head(rest) = "."
        nf     == IF dotted THEN CountDigits(Tail(rest)) ELSE 0
        after  == IF dotted THEN SubSeq(rest, nf + 2, Len(rest)) ELSE rest
    IN  /\ after = <<>>
        /\ IF dotted THEN nf > 0 ELSE ni > 0

inputValue(text) == IF IsValidFloat(text) THEN text ELSE <<>>

\* texts keyed into the two value fields
KeyedValues ==
    { <<>>, <<"8", "p", "x">>, <<"0">>, <<"8">>, <<"1", ".", "5">>, <<"-", "2">> }

\* texts keyed into the four base-ratio fields ("16" is their placeholder)
KeyedRatios ==
    { <<>>, <<"a">>, <<"0">>, <<"1", "6">> }

\* event.target.value of the change events of the value fields
ValueTexts == { inputValue(text) : text \in KeyedValues }

\* event.target.value of the change events of the base-ratio fields
RatioTexts == { inputValue(text) : text \in KeyedRatios }

DefaultBases_roundWidth ==
    [baseRem |-> Num(16), baseEm |-> Num(16),
     containerWidth |-> Num(1000), baseUnit |-> Num(8)]

DefaultBases ==
    [baseRem |-> Num(16), baseEm |-> Num(16),
     containerWidth |-> Num(1024), baseUnit |-> Num(8)]

\* the bases record the handlers pass to the engine
bases ==
    [baseRem |-> baseRem, baseEm |-> baseEm,
     containerWidth |-> containerWidth, baseUnit |-> baseUnit]

ratioOf_noFallback(text) == parseFloat(text)

\* parseFloat(event.target.value) || 0
ratioOf(text) ==
    LET parsed == parseFloat(text)
    IN  IF IsNaN(parsed) \/ IsZero(parsed) THEN Num(0) ELSE parsed

AppInit ==
    /\ selectedConversion = "PX_REM"
    /\ value1 = <<>>
    /\ value2 = <<>>
    /\ baseRem = DefaultBases.baseRem
    /\ baseEm = DefaultBases.baseEm
    /\ containerWidth = DefaultBases.containerWidth
    /\ baseUnit = DefaultBases.baseUnit
    /\ copied = FALSE
    /\ timers = 0
    /\ thrown = FALSE
    /\ lastHandler = "none"

handleSelectChange_keepsValues(e) ==
    /\ selectedConversion' = e.value
    /\ lastHandler' = "handleSelectChange"
    /\ UNCHANGED <<value1, value2, baseRem, baseEm, containerWidth, baseUnit,
                   copied, timers, thrown>>

\* Select.handleSelect(option) -> onChange(option) -> handleSelectChange(e)
handleSelectChange(e) ==
    /\ selectedConversion' = e.value
    /\ value1' = <<>>
    /\ value2' = <<>>
    /\ lastHandler' = "handleSelectChange"
    /\ UNCHANGED <<baseRem, baseEm, containerWidth, baseUnit, copied, timers, thrown>>

handleValue1Change_keepsCounterpart(text) ==
    LET newVal    == ReplaceFirst(text, ",", ".")
        parsedVal == parseFloat(newVal)
        converted == directConversion(selectedConversion, parsedVal, bases)
    IN  /\ value1' = newVal
        /\ IF IsNaN(parsedVal)
           THEN UNCHANGED <<value2, thrown>>
           ELSE value2' = toFixed(converted, 3) /\ UNCHANGED thrown
        /\ lastHandler' = "handleValue1Change"
        /\ UNCHANGED <<selectedConversion, baseRem, baseEm, containerWidth,
                       baseUnit, copied, timers>>

handleValue1Change_missingBases(text) ==
    LET newVal    == ReplaceFirst(text, ",", ".")
        parsedVal == parseFloat(newVal)
    IN  /\ value1' = newVal
        /\ IF IsNaN(parsedVal)
           THEN value2' = <<>> /\ UNCHANGED thrown
           ELSE thrown' = TRUE /\ UNCHANGED value2
        /\ lastHandler' = "handleValue1Change"
        /\ UNCHANGED <<selectedConversion, baseRem, baseEm, containerWidth,
                       baseUnit, copied, timers>>

\* converted.toFixed(3) raises a TypeError when converted is no number: the
\* handler ends there, after setValue1(newVal) and before setValue2
handleValue1Change(text) ==
    LET newVal    == ReplaceFirst(text, ",", ".")
        parsedVal == parseFloat(newVal)
        converted == directConversion(selectedConversion, parsedVal, bases)
    IN  /\ value1' = newVal
        /\ IF IsNaN(parsedVal)
           THEN value2' = <<>> /\ UNCHANGED thrown
           ELSE IF IsNumber(converted)
                THEN value2' = toFixed(converted, 3) /\ UNCHANGED thrown
                ELSE thrown' = TRUE /\ UNCHANGED value2
        /\ lastHandler' = "handleValue1Change"
        /\ UNCHANGED <<selectedConversion, baseRem, baseEm, containerWidth,
                       baseUnit, copied, timers>>

handleValue2Change_usesDirect(text) ==
    LET newVal    == ReplaceFirst(text, ",", ".")
        parsedVal == parseFloat(newVal)
        converted == directConversion(selectedConversion, parsedVal, bases)
    IN  /\ value2' = newVal
        /\ IF IsNaN(parsedVal)
           THEN value1' = <<>> /\ UNCHANGED thrown
           ELSE value1' = toFixed(converted, 3) /\ UNCHANGED thrown
        /\ lastHandler' = "handleValue2Change"
        /\ UNCHANGED <<selectedConversion, baseRem, baseEm, containerWidth,
                       baseUnit, copied, timers>>

handleValue2Change(text) ==
    LET newVal    == ReplaceFirst(text, ",", ".")
        parsedVal == parseFloat(newVal)
        converted == reverseConversion(selectedConversion, parsedVal, bases)
    IN  /\ value2' = newVal
        /\ IF IsNaN(parsedVal)
           THEN value1' = <<>> /\ UNCHANGED thrown
           ELSE IF IsNumber(converted)
                THEN value1' = toFixed(converted, 3) /\ UNCHANGED thrown
                ELSE thrown' = TRUE /\ UNCHANGED value1
        /\ lastHandler' = "handleValue2Change"
        /\ UNCHANGED <<selectedConversion, baseRem, baseEm, containerWidth,
                       baseUnit, copied, timers>>

handleSwitch_noSwap ==
    /\ selectedConversion' = invert(selectedConversion)
    /\ lastHandler' = "handleSwitch"
    /\ UNCHANGED <<value1, value2, baseRem, baseEm, containerWidth, baseUnit,
                   copied, timers, thrown>>

handleSwitch_noInvert ==
    /\ value1' = value2
    /\ value2' = value1
    /\ lastHandler' = "handleSwitch"
    /\ UNCHANGED <<selectedConversion, baseRem, baseEm, containerWidth,
                   baseUnit, copied, timers, thrown>>

handleSwitch ==
    /\ selectedConversion' = invert(selectedConversion)
    /\ value1' = value2
    /\ value2' = value1
    /\ lastHandler' = "handleSwitch"
    /\ UNCHANGED <<baseRem, baseEm, containerWidth, baseUnit, copied, timers, thrown>>

\* the clipboard written by handleCopy belongs to the browser and is never
\* read back by the component; it is not part of the state
handleCopy(field) ==
    /\ timers < MaxTimers
    /\ copied' = TRUE
    /\ timers' = timers + 1
    /\ UNCHANGED <<selectedConversion, value1, value2, baseRem, baseEm,
                   containerWidth, baseUnit, thrown,
                   lastHandler>>

copyTimeout_keepsCopied ==
    /\ timers > 0
    /\ timers' = timers - 1
    /\ UNCHANGED <<selectedConversion, value1, value2, baseRem, baseEm,
                   containerWidth, baseUnit, copied, thrown,
                   lastHandler>>

\* the callback handleCopy passed to setTimeout runs
copyTimeout ==
    /\ timers > 0
    /\ copied' = FALSE
    /\ timers' = timers - 1
    /\ UNCHANGED <<selectedConversion, value1, value2, baseRem, baseEm,
                   containerWidth, baseUnit, thrown,
                   lastHandler>>

onBaseRemChange(text) ==
    /\ baseRem' = ratioOf(text)
    /\ UNCHANGED <<selectedConversion, value1, value2, baseEm, containerWidth,
                   baseUnit, copied, timers, thrown,
                   lastHandler>>

onBaseEmChange_writesRem(text) ==
    /\ baseRem' = ratioOf(text)
    /\ UNCHANGED <<selectedConversion, value1, value2, baseEm, containerWidth,
                   baseUnit, copied, timers, thrown,
                   lastHandler>>

onBaseEmChange(text) ==
    /\ baseEm' = ratioOf(text)
    /\ UNCHANGED <<selectedConversion, value1, value2, baseRem, containerWidth,
                   baseUnit, copied, timers, thrown,
                   lastHandler>>

onContainerWidthChange(text) ==
    /\ containerWidth' = ratioOf(text)
    /\ UNCHANGED <<selectedConversion, value1, value2, baseRem, baseEm,
                   baseUnit, copied, timers, thrown,
                   lastHandler>>

onBaseUnitChange(text) ==
    /\ baseUnit' = ratioOf(text)
    /\ UNCHANGED <<selectedConversion, value1, value2, baseRem, baseEm,
                   containerWidth, copied, timers, thrown,
                   lastHandler>>

\* App render: the props of the BaseUnits panel, which prints baseRem,
\* baseEm, containerWidth and baseUnit as it receives them
BaseUnitsProps ==
    [baseRem |-> baseRem, baseEm |-> baseRem,
     containerWidth |-> baseRem, baseUnit |-> baseRem]

----------------------------------------------------------------------------
(* calls of the engine's functions on arguments of their whole domain *)

Modes ==
    {"PX_REM", "REM_PX", "PX_EM", "EM_PX", "PX_PCT", "PCT_PX", "BASE_PX", "PX_BASE"}

\* tags outside the enumeration
UnknownTags == {"PT_PX", "constructor"}

CallValues ==
    {Num(i) : i \in -MaxValue .. MaxValue}
        \cup {NegZero, Num(32), Num(256), Inf(1), Inf(-1), NaN}

CallRatios(default) ==
    {default, Num(0), Num(-2)} \cup {Num(i) : i \in 1 .. MaxRatio}

NoLabels == Labels("", "", "", "")

CallIdle ==
    /\ pMode = "PX_REM"
    /\ pValue = Num(0)
    /\ pRatios = DefaultBases
    /\ pCalls = <<>>
    /\ pNum = Num(0)
    /\ pTag = "PX_REM"
    /\ pLabels = NoLabels

CallArgs ==
    /\ pMode \in Modes \cup UnknownTags
    /\ pValue \in CallValues
    /\ pRatios \in [baseRem : CallRatios(DefaultBases.baseRem),
                    baseEm : CallRatios(DefaultBases.baseEm),
                    containerWidth : CallRatios(DefaultBases.containerWidth),
                    baseUnit : CallRatios(DefaultBases.baseUnit)]
    /\ pCalls = <<>>
    /\ pNum = pValue
    /\ pTag = pMode
    /\ pLabels = NoLabels

\* directConversion on the current number: the first call, or the second
\* half of a round trip
CallDirect ==
    /\ pCalls \in {<<>>, <<"reverseConversion">>}
    /\ pNum' = directConversion(pMode, pNum, pRatios)
    /\ pCalls' = Append(pCalls, "directConversion")
    /\ UNCHANGED <<pMode, pValue, pRatios, pTag, pLabels>>

CallReverse ==
    /\ pCalls \in {<<>>, <<"directConversion">>}
    /\ pNum' = reverseConversion(pMode, pNum, pRatios)
    /\ pCalls' = Append(pCalls, "reverseConversion")
    /\ UNCHANGED <<pMode, pValue, pRatios, pTag, pLabels>>

CallInvert ==
    /\ pCalls \in {<<>>, <<"invert">>}
    /\ pTag' = invert(pTag)
    /\ pCalls' = Append(pCalls, "invert")
    /\ UNCHANGED <<pMode, pValue, pRatios, pNum, pLabels>>

CallLabels ==
    /\ pCalls \in {<<>>, <<"invert">>}
    /\ pLabels' = getLabelsAndPlaceholders(pTag)
    /\ pCalls' = Append(pCalls, "getLabelsAndPlaceholders")
    /\ UNCHANGED <<pMode, pValue, pRatios, pNum, pTag>>

----------------------------------------------------------------------------
(* specifications *)

\* the popup driven by its user
Init == AppInit /\ CallIdle

Next ==
    \/ \E i \in DOMAIN selectOptions : handleSelectChange(selectOptions[i]) /\ UNCHANGED probeVars
    \/ \E text \in ValueTexts : handleValue1Change(text) /\ UNCHANGED probeVars
    \/ \E text \in ValueTexts : handleValue2Change(text) /\ UNCHANGED probeVars
    \/ handleSwitch /\ UNCHANGED probeVars
    \/ \E field \in {"input1", "input2"} : handleCopy(field) /\ UNCHANGED probeVars
    \/ copyTimeout /\ UNCHANGED probeVars
    \/ \E text \in RatioTexts : onBaseRemChange(text) /\ UNCHANGED probeVars
    \/ \E text \in RatioTexts : onBaseEmChange(text) /\ UNCHANGED probeVars
    \/ \E text \in RatioTexts : onContainerWidthChange(text) /\ UNCHANGED probeVars
    \/ \E text \in RatioTexts : onBaseUnitChange(text) /\ UNCHANGED probeVars

Spec == Init /\ [][Next]_vars

\* the popup under the event loop, which runs every timeout callback that
\* is due
FairSpec == Spec /\ WF_vars(copyTimeout /\ UNCHANGED probeVars)

\* the engine's functions called on arbitrary arguments
EngineInit == AppInit /\ CallArgs

EngineNext ==
    \/ CallDirect /\ UNCHANGED uiVars
    \/ CallReverse /\ UNCHANGED uiVars
    \/ CallInvert /\ UNCHANGED uiVars
    \/ CallLabels /\ UNCHANGED uiVars

EngineSpec == EngineInit /\ [][EngineNext]_vars

----------------------------------------------------------------------------
(* properties of the engine, under EngineSpec *)

IsPositive(x) == IsFinite(x) /\ x.s = 1 /\ x.n > 0

AllPositive(r) ==
    /\ IsPositive(r.baseRem)
    /\ IsPositive(r.baseEm)
    /\ IsPositive(r.containerWidth)
    /\ IsPositive(r.baseUnit)

\* C1: for each of the 8 modes, all four ratios > 0 and a finite value v,
\* directConversion followed by reverseConversion, and reverseConversion
\* followed by directConversion, with the same mode and ratios return v
\* (in exact arithmetic).
C1_RoundTrip ==
    ( /\ pMode \in Modes
      /\ AllPositive(pRatios)
      /\ IsFinite(pValue)
      /\ pCalls \in { <<"directConversion", "reverseConversion">>,
                      <<"reverseConversion", "directConversion">> } )
        => pNum = pValue

C1_Witness ==
    /\ pMode = "PX_PCT"
    /\ pValue = Num(3)
    /\ pRatios = [DefaultBases EXCEPT !.containerWidth = Num(2)]
    /\ pCalls = <<"directConversion", "reverseConversion">>
    /\ pNum = Num(3)

\* C2: for each of the 8 modes, every value and every ratio record,
\* reverseConversion(mode, v, r) is directConversion(invert(mode), v, r).
C2_ReverseIsDirectOfInverse ==
    (pMode \in Modes /\ pCalls = <<"reverseConversion">>)
        => pNum = directConversion(invert(pMode), pValue, pRatios)

C2_Witness ==
    /\ pMode = "PX_BASE"
    /\ pValue = Num(3)
    /\ pRatios = DefaultBases
    /\ pCalls = <<"reverseConversion">>
    /\ pNum = Num(24)

\* C3: for each of the 8 modes m, invert(m) is one of the 8 modes and
\* invert(invert(m)) = m.
C3_Involution ==
    /\ (pMode \in Modes /\ pCalls = <<"invert">>) => pTag \in Modes
    /\ (pMode \in Modes /\ pCalls = <<"invert", "invert">>) => pTag = pMode

C3_Witness ==
    /\ pMode = "PX_BASE"
    /\ pCalls = <<"invert", "invert">>
    /\ pTag = "PX_BASE"

\* the formula table of the specification, mode by mode
TableFormula(mode, value, r) ==
    CASE mode = "PX_REM"  -> NumDiv(value, r.baseRem)
      [] mode = "REM_PX"  -> NumMul(value, r.baseRem)
      [] mode = "PX_EM"   -> NumDiv(value, r.baseEm)
      [] mode = "EM_PX"   -> NumMul(value, r.baseEm)
      [] mode = "PX_PCT"  -> NumMul(NumDiv(value, r.containerWidth), Num(100))
      [] mode = "PCT_PX"  -> NumMul(NumDiv(value, Num(100)), r.containerWidth)
      [] mode = "BASE_PX" -> NumMul(value, r.baseUnit)
      [] mode = "PX_BASE" -> NumDiv(value, r.baseUnit)

\* the worked cases of the specification, with the default ratios
TableCase(mode, value) ==
    CASE mode = "PX_REM"  /\ value = Num(32)  -> Num(2)
      [] mode = "REM_PX"  /\ value = Num(2)   -> Num(32)
      [] mode = "PX_PCT"  /\ value = Num(256) -> Num(25)
      [] mode = "BASE_PX" /\ value = Num(3)   -> Num(24)
      [] mode = "PX_PCT"  /\ value = Num(0)   -> Num(0)
      [] OTHER -> NaN

\* C4: directConversion computes the tabulated formula of each of the 8
\* modes; with the default ratios PX_REM 32 -> 2, REM_PX 2 -> 32,
\* PX_PCT 256 -> 25, BASE_PX 3 -> 24, PX_PCT 0 -> 0.
C4_DirectFormulas ==
    (pMode \in Modes /\ pCalls = <<"directConversion">>)
        => /\ pNum = TableFormula(pMode, pValue, pRatios)
           /\ (pRatios = DefaultBases /\ ~IsNaN(TableCase(pMode, pValue)))
                => StrictEq(pNum, TableCase(pMode, pValue))

C4_Witness ==
    /\ pMode = "PX_PCT"
    /\ pValue = Num(256)
    /\ pRatios = DefaultBases
    /\ pCalls = <<"directConversion">>
    /\ pNum = Num(25)

\* C5: for a mode tag outside the 8 modes, directConversion and
\* reverseConversion return 0 whatever the value and the ratios.
C5_UnknownModeZero ==
    ( /\ pMode \notin Modes
      /\ pCalls \in {<<"directConversion">>, <<"reverseConversion">>} )
        => pNum = Num(0)

C5_Witness ==
    /\ pMode = "PT_PX"
    /\ pValue = Num(3)
    /\ pRatios.baseRem = Num(0)
    /\ pCalls = <<"reverseConversion">>
    /\ pNum = Num(0)

\* C6: invert returns its input unchanged for every tag absent from the
\* inversion table, and does not take that fallback for any of the 8 modes.
C6_IdentityFallback ==
    /\ (pMode \notin DOMAIN invertedMap /\ pCalls = <<"invert">>) => pTag = pMode
    /\ (pMode \in Modes /\ pCalls = <<"invert">>) => pTag = invertedMap[pMode]

\* C8: getLabelsAndPlaceholders returns for mode X_Y the label of unit X as
\* label1 and the label of unit Y as label2, and "Value 1" / "Value 2" for
\* an unrecognized mode.
ModeUnits ==
    [ PX_REM  |-> <<"PX", "REM">>,
      REM_PX  |-> <<"REM", "PX">>,
      PX_EM   |-> <<"PX", "EM">>,
      EM_PX   |-> <<"EM", "PX">>,
      PX_PCT  |-> <<"PX", "PCT">>,
      PCT_PX  |-> <<"PCT", "PX">>,
      BASE_PX |-> <<"BASE", "PX">>,
      PX_BASE |-> <<"PX", "BASE">> ]

UnitLabel ==
    [ PX |-> "PX", REM |-> "REM", EM |-> "EM", PCT |-> "%", BASE |-> "Base Unit" ]

C8_Labels ==
    pCalls = <<"getLabelsAndPlaceholders">>
        => IF pMode \in Modes
           THEN /\ pLabels.label1 = UnitLabel[ModeUnits[pMode][1]]
                /\ pLabels.label2 = UnitLabel[ModeUnits[pMode][2]]
           ELSE /\ pLabels.label1 = "Value 1"
                /\ pLabels.label2 = "Value 2"

C8_Witness ==
    /\ pMode = "EM_PX"
    /\ pCalls = <<"getLabelsAndPlaceholders">>
    /\ pLabels.label1 = "EM"
    /\ pLabels.label2 = "PX"

ZeroWidthBases == [DefaultBases EXCEPT !.containerWidth = Num(0)]

\* C9 as stated: for any mode and any finite value, directConversion with
\* containerWidth = 0 and the other ratios at their defaults yields
\* Infinity or NaN.
C9_AnyModeInfinityOrNaN ==
    ( /\ pCalls = <<"directConversion">>
      /\ pRatios = ZeroWidthBases
      /\ IsFinite(pValue) )
        => (IsInfinite(pNum) \/ IsNaN(pNum))

\* C9 amended: with containerWidth = 0, the other ratios at their defaults
\* and a finite value v, directConversion returns a number for every mode;
\* for PX_PCT it is Infinity (v > 0), -Infinity (v < 0) or NaN (v = 0), and
\* for every other mode tag it is finite.
C9_ZeroWidth ==
    ( /\ pCalls = <<"directConversion">>
      /\ pRatios = ZeroWidthBases
      /\ IsFinite(pValue) )
        => /\ IsNumber(pNum)
           /\ pMode = "PX_PCT" =>
                pNum = (IF IsZero(pValue) THEN NaN ELSE Inf(pValue.s))
           /\ pMode # "PX_PCT" => IsFinite(pNum)

C9_Witness ==
    /\ pMode = "PX_PCT"
    /\ pValue = Num(3)
    /\ pRatios = ZeroWidthBases
    /\ pCalls = <<"directConversion">>
    /\ pNum = Inf(1)

\* C10: directConversion and reverseConversion return a number (finite,
\* an infinity or NaN) for every mode tag, every numeric value and every
\* record of four numeric ratios, zero and negative ratios included.
C10_ReturnsNumber ==
    (pCalls # <<>> /\ pCalls[1] \in {"directConversion", "reverseConversion"})
        => IsNumber(pNum)

C10_Witness ==
    /\ pMode = "PX_EM"
    /\ pValue = NegZero
    /\ pRatios.baseEm = Num(0)
    /\ pRatios.baseRem = Num(-2)
    /\ pCalls = <<"directConversion">>
    /\ pNum = NaN

----------------------------------------------------------------------------
(* properties of the App component, under Spec *)

\* C7: in every reachable state of the popup the current mode is one of the
\* 8 enumerated modes.
C7_ModeInEnumeration == selectedConversion \in Modes

C7_Witness ==
    /\ selectedConversion = "BASE_PX"
    /\ value1 = <<"-", "0", ".", "1", "2", "5">>
    /\ value2 = <<"-", "2">>
    /\ baseUnit = Num(16)
    /\ copied

NaNText == <<"N", "a", "N">>

InfinityTexts ==
    { <<"I", "n", "f", "i", "n", "i", "t", "y">>,
      <<"-", "I", "n", "f", "i", "n", "i", "t", "y">> }

\* a text [-]digits.ddd
IsFixed3(t) ==
    LET body == IF t # <<>> /\ Head(t) = "-" THEN Tail(t) ELSE t
    IN  /\ Len(body) >= 5
        /\ body[Len(body) - 3] = "."
        /\ \A i \in 1 .. Len(body) : i # Len(body) - 3 => IsDigit(body[i])

Fields == {"input1", "input2"}

UnparseableTexts == {text \in ValueTexts : IsNaN(parseFloat(text))}

ParseableTexts == ValueTexts \ UnparseableTexts

\* C11: when the text entered in a value field does not parse to a number,
\* the counterpart field becomes empty and the edited field keeps the
\* entered text.
C11_UnparseableClears ==
    [][\A text \in UnparseableTexts :
        /\ handleValue1Change(text) => (value2' = <<>> /\ value1' = text)
        /\ handleValue2Change(text) => (value1' = <<>> /\ value2' = text)]_vars

C11_Witness ==
    /\ lastHandler = "handleValue1Change"
    /\ selectedConversion = "PX_EM"
    /\ baseEm = Num(0)
    /\ value1 = <<>>
    /\ value2 = <<>>

\* C12: when the typed text parses to a number x, the counterpart field is
\* the engine result for x under the current mode and ratios, written with
\* 3 decimals: directConversion for an edit of field 1, reverseConversion
\* for an edit of field 2.
C12_ParseableConverts ==
    [][\A text \in ParseableTexts :
        LET x == parseFloat(text)
            d == directConversion(selectedConversion, x, bases)
            r == reverseConversion(selectedConversion, x, bases)
        IN  /\ handleValue1Change(text)
                  => /\ value1' = text
                     /\ value2' = toFixed(d, 3)
                     /\ IsFinite(d) => IsFixed3(value2')
            /\ handleValue2Change(text)
                  => /\ value2' = text
                     /\ value1' = toFixed(r, 3)
                     /\ IsFinite(r) => IsFixed3(value1')]_vars

C12_Witness ==
    /\ lastHandler = "handleValue2Change"
    /\ selectedConversion = "PX_REM"
    /\ baseRem = Num(16)
    /\ value2 = <<"1", ".", "5">>
    /\ value1 = <<"2", "4", ".", "0", "0", "0">>

\* the two fields as a conversion pair under the current mode and ratios
DirectPair(mode, v1, v2, ratios) ==
    /\ ~IsNaN(parseFloat(v1))
    /\ v2 = toFixed(directConversion(mode, parseFloat(v1), ratios), 3)

ReversePair(mode, v1, v2, ratios) ==
    /\ ~IsNaN(parseFloat(v2))
    /\ v1 = toFixed(reverseConversion(mode, parseFloat(v2), ratios), 3)

PairByDirect == DirectPair(selectedConversion, value1, value2, bases)

PairByReverse == ReversePair(selectedConversion, value1, value2, bases)

\* C13: whenever both value fields are non-empty, one is the 3-decimal
\* rendering of the engine result for the other under the current mode and
\* the current base ratios.
C13_DisplayedPair ==
    (value1 # <<>> /\ value2 # <<>>) => (PairByDirect \/ PairByReverse)

\* C14: in every reachable state the four base ratios are > 0.
C14_RatiosPositive == AllPositive(bases)

\* what a value field holds when nothing went wrong: nothing, an entered
\* text or a number with 3 decimals
OrdinaryText(t) ==
    \/ t = <<>>
    \/ t \in ValueTexts
    \/ IsFixed3(t)

\* C15: no handler throws, and a value field shows at worst "NaN" or
\* nothing: the only texts a field holds besides an entered text and a
\* number with 3 decimals are "NaN", "Infinity" and "-Infinity", and for
\* these the number input shows nothing.
C15_NoFatalError ==
    /\ ~thrown
    /\ \A t \in {value1, value2} :
          \/ OrdinaryText(t) /\ inputValue(t) = t
          \/ t \in {NaNText} \cup InfinityTexts /\ inputValue(t) = <<>>

C15_Witness ==
    /\ lastHandler = "handleValue1Change"
    /\ baseRem = Num(0)
    /\ selectedConversion = "PX_REM"
    /\ value1 = <<"-", "2">>
    /\ value2 = <<"-", "I", "n", "f", "i", "n", "i", "t", "y">>
    /\ inputValue(value2) = <<>>
    /\ ~thrown

\* C16: handleCopy turns the indicator on, and an indicator that is on is
\* eventually off again.
C16_CopiedTransient ==
    /\ [][(\E field \in Fields : handleCopy(field)) => copied']_vars
    /\ (copied ~> ~copied)

C16_Witness ==
    /\ copied
    /\ timers = 1

InitialAppState ==
    /\ selectedConversion = "PX_REM"
    /\ value1 = <<>>
    /\ value2 = <<>>
    /\ baseRem = Num(16)
    /\ baseEm = Num(16)
    /\ containerWidth = Num(1024)
    /\ baseUnit = Num(8)

\* C17: the initial state is mode PX_REM, both value fields empty, baseRem
\* 16, baseEm 16, containerWidth 1024, baseUnit 8.
C17_InitialState == InitialAppState /\ [][TRUE]_vars

C17_Witness ==
    /\ InitialAppState
    /\ ~copied
    /\ timers = 0

\* C18: handleSwitch sets the mode to its entry of the inversion table and
\* exchanges the two value fields as they are.
C18_SwitchSwaps ==
    [][handleSwitch =>
        /\ selectedConversion' = invertedMap[selectedConversion]
        /\ value1' = value2
        /\ value2' = value1]_vars

C18_Witness ==
    /\ lastHandler = "handleSwitch"
    /\ selectedConversion = "REM_PX"
    /\ value1 = <<"0", ".", "5", "0", "0">>
    /\ value2 = <<"8">>

\* the case of C19: positive ratios, and field 2 shows the conversion of
\* field 1
SwitchOfDirectPair ==
    /\ handleSwitch
    /\ AllPositive(bases)
    /\ PairByDirect

\* C19 as stated: if value2 is the rendering of directConversion(mode,
\* value1) before the switch, then value2 is the rendering of
\* directConversion(invert(mode), value1) after it, for positive ratios.
C19_SwitchKeepsDirectPair ==
    [][SwitchOfDirectPair
          => DirectPair(selectedConversion', value1', value2', bases')]_vars

\* C19 amended: if value2 is the rendering of directConversion(mode, value1)
\* before the switch, then after it value1 is the rendering of
\* reverseConversion(invert(mode), value2), for positive ratios.
C19_SwitchGivesReversePair ==
    [][SwitchOfDirectPair
          => ReversePair(selectedConversion', value1', value2', bases')]_vars

C19_Witness ==
    /\ lastHandler = "handleSwitch"
    /\ selectedConversion = "PX_BASE"
    /\ baseUnit = Num(8)
    /\ value1 = <<"-", "1", "6", ".", "0", "0", "0">>
    /\ value2 = <<"-", "2">>

\* C20: handleSelectChange sets the mode to the chosen option's value and
\* empties both value fields.
C20_SelectResets ==
    [][\A i \in DOMAIN selectOptions :
        handleSelectChange(selectOptions[i]) =>
            /\ selectedConversion' = selectOptions[i].value
            /\ value1' = <<>>
            /\ value2' = <<>>]_vars

C20_Witness ==
    /\ lastHandler = "handleSelectChange"
    /\ selectedConversion = "PCT_PX"
    /\ value1 = <<>>
    /\ value2 = <<>>
    /\ containerWidth = Num(16)

\* C21: the panel of current base values shows the four ratios of the
\* state, each under its own name.
C21_PanelShowsRatios == BaseUnitsProps = bases

\* C22: a handleSwitch call made right after a handleSwitch call gives back
\* the mode, the two value fields and the four ratios the first call
\* started from: the mode it would set is the mode before, the value it
\* would write to each field is the value that field held before.
C22_DoubleSwitchRestores ==
    [][handleSwitch =>
        /\ invert(selectedConversion') = selectedConversion
        /\ value2' = value1
        /\ value1' = value2
        /\ bases' = bases]_vars

C22_Witness ==
    /\ lastHandler = "handleSwitch"
    /\ selectedConversion = "PX_BASE"
    /\ invert(invert(selectedConversion)) = "PX_BASE"
    /\ value1 = <<"1", ".", "5">>
    /\ value2 = <<"0", ".", "1", "8", "8">>

\* C23: value edits, mode selection, switch and copy leave the four ratios
\* as they are; each ratio setter leaves the other three ratios, the mode
\* and both value fields as they are.  Stated on the steps that change a
\* ratio: such a step is no step of the former handlers, it is no step of
\* another ratio's setter, and it changes no other ratio, nor the mode, nor
\* a value field.
C23_Frame ==
    [][/\ bases' # bases
          => ~ ( \/ \E text \in ValueTexts : handleValue1Change(text)
                 \/ \E text \in ValueTexts : handleValue2Change(text)
                 \/ \E i \in DOMAIN selectOptions :
                        handleSelectChange(selectOptions[i])
                 \/ handleSwitch
                 \/ \E field \in Fields : handleCopy(field) )
       /\ baseRem' # baseRem
          => /\ UNCHANGED <<baseEm, containerWidth, baseUnit,
                            selectedConversion, value1, value2>>
             /\ ~ \E text \in RatioTexts :
                    \/ onBaseEmChange(text)
                    \/ onContainerWidthChange(text)
                    \/ onBaseUnitChange(text)
       /\ baseEm' # baseEm
          => /\ UNCHANGED <<baseRem, containerWidth, baseUnit,
                            selectedConversion, value1, value2>>
             /\ ~ \E text \in RatioTexts :
                    \/ onBaseRemChange(text)
                    \/ onContainerWidthChange(text)
                    \/ onBaseUnitChange(text)
       /\ containerWidth' # containerWidth
          => /\ UNCHANGED <<baseRem, baseEm, baseUnit,
                            selectedConversion, value1, value2>>
             /\ ~ \E text \in RatioTexts :
                    \/ onBaseRemChange(text)
                    \/ onBaseEmChange(text)
                    \/ onBaseUnitChange(text)
       /\ baseUnit' # baseUnit
          => /\ UNCHANGED <<baseRem, baseEm, containerWidth,
                            selectedConversion, value1, value2>>
             /\ ~ \E text \in RatioTexts :
                    \/ onBaseRemChange(text)
                    \/ onBaseEmChange(text)
                    \/ onContainerWidthChange(text)]_vars

C23_Witness ==
    /\ baseRem = Num(16)
    /\ baseEm = Num(0)
    /\ containerWidth = Num(1024)
    /\ baseUnit = Num(8)
    /\ selectedConversion = "PX_PCT"
    /\ value1 = <<"8">>
    /\ value2 = <<"0", ".", "7", "8", "1">>
    /\ copied

\* texts for which parseFloat(text) || 0 is 0
ZeroRatioTexts ==
    {text \in RatioTexts : IsNaN(parseFloat(text)) \/ IsZero(parseFloat(text))}

\* C24: every ratio is a number other than NaN in every state, and a ratio
\* setter given an empty, unparseable or zero text stores 0 (a step that
\* leaves a ratio other than 0 is no step of its setter on such a text).
C24_RatioNeverNaN ==
    /\ [](\A x \in {baseRem, baseEm, containerWidth, baseUnit} :
            IsNumber(x) /\ ~IsNaN(x))
    /\ [][/\ baseRem' # Num(0)
             => ~ \E text \in ZeroRatioTexts : onBaseRemChange(text)
          /\ baseEm' # Num(0)
             => ~ \E text \in ZeroRatioTexts : onBaseEmChange(text)
          /\ containerWidth' # Num(0)
             => ~ \E text \in ZeroRatioTexts : onContainerWidthChange(text)
          /\ baseUnit' # Num(0)
             => ~ \E text \in ZeroRatioTexts : onBaseUnitChange(text)]_vars

C24_Witness ==
    /\ baseRem = Num(0)
    /\ baseEm = Num(16)
    /\ containerWidth = Num(0)
    /\ baseUnit = Num(8)

\* C27: while a timeout started by handleCopy is pending, the indicator is
\* on.
C27_PendingShowsCopied == timers > 0 => copied

\* the ratio tied to each mode
ModeRatio ==
    [ PX_REM  |-> "baseRem",        REM_PX  |-> "baseRem",
      PX_EM   |-> "baseEm",         EM_PX   |-> "baseEm",
      PX_PCT  |-> "containerWidth", PCT_PX  |-> "containerWidth",
      BASE_PX |-> "baseUnit",       PX_BASE |-> "baseUnit" ]

\* the ratio record that agrees with r on the ratio tied to the mode and
\* holds that same ratio in the other three fields
TiedOnly(mode, r) ==
    [field \in DOMAIN r |-> r[ModeRatio[mode]]]

\* C25: for each of the 8 modes, every value and every ratio record r, the
\* result of directConversion and of reverseConversion is the result for
\* the record TiedOnly(mode, r); two records that agree on the ratio tied
\* to the mode have the same TiedOnly record, hence the same results.
C25_OneRatio ==
    pMode \in Modes =>
        /\ pCalls = <<"directConversion">>
              => pNum = directConversion(pMode, pValue, TiedOnly(pMode, pRatios))
        /\ pCalls = <<"reverseConversion">>
              => pNum = reverseConversion(pMode, pValue, TiedOnly(pMode, pRatios))

C25_Witness ==
    /\ pMode = "PX_EM"
    /\ pValue = Num(3)
    /\ pRatios = [baseRem |-> Num(0), baseEm |-> Num(2),
                  containerWidth |-> Num(-2), baseUnit |-> Num(1)]
    /\ pCalls = <<"directConversion">>
    /\ pNum = Fin(1, 3, 2)

\* C26: for each of the 8 modes m, the labels of invert(m) are the labels
\* of m exchanged.
C26_LabelsFollowInversion ==
    (pMode \in Modes /\ pCalls = <<"invert", "getLabelsAndPlaceholders">>)
        => /\ pLabels.label1 = getLabelsAndPlaceholders(pMode).label2
           /\ pLabels.label2 = getLabelsAndPlaceholders(pMode).label1

C26_Witness ==
    /\ pMode = "PCT_PX"
    /\ pCalls = <<"invert", "getLabelsAndPlaceholders">>
    /\ pTag = "PX_PCT"
    /\ pLabels.label1 = "PX"
    /\ pLabels.label2 = "%"

OptionValues == {selectOptions[i].value : i \in DOMAIN selectOptions}

\* C28: selectOptions lists each of the 8 modes once, the keys of
\* invertedMap and its values are those 8 modes, and no mode is mapped to
\* itself: the inversion of a mode is another listed mode.
C28_SameModeSet ==
    /\ Len(selectOptions) = 8
    /\ OptionValues = Modes
    /\ Cardinality(OptionValues) = 8
    /\ DOMAIN invertedMap = OptionValues
    /\ {invertedMap[key] : key \in DOMAIN invertedMap} = OptionValues
    /\ \A key \in DOMAIN invertedMap : invertedMap[key] # key
    /\ (pMode \in OptionValues /\ pCalls = <<"invert">>)
          => (pTag \in OptionValues /\ pTag # pMode)

C28_Witness ==
    /\ pMode = "PX_PCT"
    /\ pCalls = <<"invert">>
    /\ pTag = "PCT_PX"

====
